---- MODULE Spec2Model ----
(***************************************************************************)
(* The QOI codec of src/src/qoi.rs as a state machine.                     *)
(*                                                                         *)
(* encode_img is the pipeline  raster -> Compresser -> Assembler -> bytes  *)
(* and parse_img the pipeline  bytes -> Parser -> Interpreter -> raster.   *)
(* Both are lazy pull iterators: one pull of the outer iterator is one     *)
(* action here, the inner iterator's next() included.                      *)
(***************************************************************************)
EXTENDS Integers, Sequences, FiniteSets, TLC

VARIABLES
    pc,            \* position of the driver
    width,         \* encode_img: argument width (u32)
    height,        \* encode_img: argument height (u32)
    pixels,        \* encode_img: argument pixels (Vec<u8>)
    comp,          \* the Compresser: pix_stream (the number of slices of
                   \* pixels.chunks(4) taken so far), last_pix, seen
    encoded,       \* bytes collected so far from the Assembler side
    clog,          \* history: one entry per chunk the Compresser returned
    data,          \* the byte iterator read by parse_img / Parser (what is left)
    hdr,           \* parse_img: width, height, channels, colorspace read
    interp,        \* the Interpreter: max_pix, pix_count, pixel, seen
    raster,        \* bytes collected so far from the Interpreter
    ilog,          \* history: one entry per chunk the Interpreter applied
    chunk_stream,  \* chunks between a Parser and an Assembler
    input          \* history: the bytes or the chunk a run of the decoding
                   \* side started from

vars == <<pc, width, height, pixels, comp, encoded, clog, data, hdr, interp,
          raster, ilog, chunk_stream, input>>

(***************************************************************************)
(* Bounds of the model.                                                    *)
(***************************************************************************)
\* number of runs of equal pixels an input raster is made of
MaxSegs == 3
\* number of body bytes of a file handed to parse_img
MaxBody == 3
\* number of bytes of a stream handed to the Parser alone
MaxBytes == 5

(***************************************************************************)
(* Machine arithmetic.                                                     *)
(***************************************************************************)
None == [some |-> FALSE]

Pow2(n) == 2 ^ n

\* x >> n
Shr(x, n) == x \div Pow2(n)

\* (x << n) on u8: the bits shifted past bit 7 are lost
Shl8(x, n) == (x * Pow2(n)) % 256

RECURSIVE BitAnd(_, _)
BitAnd(a, b) ==
    IF a = 0 \/ b = 0 THEN 0
    ELSE (IF a % 2 = 1 /\ b % 2 = 1 THEN 1 ELSE 0) + 2 * BitAnd(a \div 2, b \div 2)

RECURSIVE BitOr(_, _)
BitOr(a, b) ==
    IF a = 0 THEN b
    ELSE IF b = 0 THEN a
    ELSE (IF a % 2 = 1 \/ b % 2 = 1 THEN 1 ELSE 0) + 2 * BitOr(a \div 2, b \div 2)

\* `x as u8` of a signed value: two's complement, low eight bits
AsU8(x) == x % 256

\* `x as i8` of a value: low eight bits read as signed
AsI8(x) == ((x + 128) % 256) - 128

\* u8::wrapping_add_signed
\* u8::saturating_add_signed in its place
saturating_add_signed(x, d) ==
    IF x + d < 0 THEN 0 ELSE IF x + d > 255 THEN 255 ELSE x + d

wrapping_add_signed(x, d) == (x + d) % 256

\* u32::to_be_bytes
to_be_bytes(x) ==
    << (x \div 16777216) % 256, (x \div 65536) % 256, (x \div 256) % 256, x % 256 >>

\* u32::from_be_bytes
from_be_bytes(b) == ((b[1] * 256 + b[2]) * 256 + b[3]) * 256 + b[4]

\* slice.chunks(4): consecutive slices of four bytes, the last one shorter
\* when the length is no multiple of four; their number and the i-th of them
NChunks4(s) == (Len(s) + 3) \div 4

Chunk4(s, i) == SubSeq(s, 4 * (i - 1) + 1, IF 4 * i <= Len(s) THEN 4 * i ELSE Len(s))

\* slice.repeat(n)
Repeat(s, n) == [i \in 1..(n * Len(s)) |-> s[((i - 1) % Len(s)) + 1]]

(***************************************************************************)
(* Chunks, the index hash and the initial state of the two coders.         *)
(***************************************************************************)
Rgb(r, g, b) == [tag |-> "Rgb", r |-> r, g |-> g, b |-> b]
Rgba(r, g, b, a) == [tag |-> "Rgba", r |-> r, g |-> g, b |-> b, a |-> a]
Index(loc) == [tag |-> "Index", loc |-> loc]
Diff(dr, dg, db) == [tag |-> "Diff", dr |-> dr, dg |-> dg, db |-> db]
Luma(dg, dr_dg, db_dg) == [tag |-> "Luma", dg |-> dg, dr_dg |-> dr_dg, db_dg |-> db_dg]
Run(length) == [tag |-> "Run", length |-> length]

hash(c) == (c[1] * 3 + c[2] * 5 + c[3] * 7 + c[4] * 11) % 64

\* [[0; 4]; 64]
SeenInit == [i \in 0..63 |-> <<0, 0, 0, 0>>]

\* [0, 0, 0, 255]
PixelInit == <<0, 0, 0, 255>>

EndMarker == <<0, 0, 0, 0, 0, 0, 0, 1>>

Magic == <<113, 111, 105, 102>>

(***************************************************************************)
(* Compresser::next                                                        *)
(***************************************************************************)
\* the last value of `length` for which the run loop still takes a pixel
RunContinueMax == 61

\* the while-let loop: pixels are taken from the stream while the peeked
\* slice equals pix and length <= 61; the peeked slice that ends the loop
\* stays in the stream
\* what the while-let loop of lines 321-328 does from `taken` slices taken
\* and a run of `length`, when it goes on while length <= last: it takes the
\* slices that follow while the peeked slice equals pix and length <= last;
\* the peeked slice that ends the loop stays in the stream
RunLoop(taken, pix, length, last) ==
    LET cap == IF length <= last THEN last + 1 - length ELSE 0
        Same(k) == /\ taken + k <= NChunks4(pixels)
                   /\ Chunk4(pixels, taken + k) = pix
        stop == {k \in 1..cap : ~Same(k)}
        more == IF stop = {} THEN cap
                ELSE (CHOOSE k \in stop : \A j \in stop : k <= j) - 1
    IN  [length |-> length + more, pix_stream |-> taken + more]

\* the run loop with the cap off by one: length <= 62
RunExtendCap63(taken, pix, length) == RunLoop(taken, pix, length, RunContinueMax + 1)

\* the run loop taking one more slice than it counts
RunExtendTakeOneMore(taken, pix, length) ==
    LET r == RunLoop(taken, pix, length, RunContinueMax)
    IN  [r EXCEPT !.pix_stream = r.pix_stream + 1]

\* the run loop as written: length <= 61
RunExtend(taken, pix, length) == RunLoop(taken, pix, length, RunContinueMax)

dr_dg_db(pix, last_pix) ==
    << pix[1] - last_pix[1], pix[2] - last_pix[2], pix[3] - last_pix[3] >>

\* (-2..=1).contains(&dr) && (-2..=1).contains(&dg) && (-2..=1).contains(&db)
DiffFits(d) ==
    /\ d[1] \in -2..1
    /\ d[2] \in -2..1
    /\ d[3] \in -2..1

\* the Luma test with dg = 32 let through
LumaFitsDg32(d) ==
    /\ d[2] \in -32..32
    /\ (d[1] - d[2]) \in -8..6
    /\ (d[3] - d[2]) \in -8..6

\* (-32..=31).contains(&dg) && (-8..7).contains(&(dr - dg)) && (-8..7).contains(&(db - dg))
LumaFits(d) ==
    /\ d[2] \in -32..31
    /\ (d[1] - d[2]) \in -8..6
    /\ (d[3] - d[2]) \in -8..6

\* the part of next() after the run loop with the Diff test moved in front of
\* the test of the seen table
EncodePixelDiffFirst(c, pix, stream) ==
    LET d == dr_dg_db(pix, c.last_pix)
        h == hash(pix)
        seen2 == [c.seen EXCEPT ![h] = pix]
    IN  IF DiffFits(d)
        THEN [some |-> TRUE, chunk |-> Diff(AsI8(d[1]), AsI8(d[2]), AsI8(d[3])),
              comp |-> [pix_stream |-> stream, last_pix |-> pix, seen |-> seen2]]
        ELSE IF c.seen[h] = pix
        THEN [some |-> TRUE, chunk |-> Index(h),
              comp |-> [pix_stream |-> stream, last_pix |-> pix, seen |-> c.seen]]
        ELSE IF LumaFits(d)
        THEN [some |-> TRUE,
              chunk |-> Luma(AsI8(d[2]), AsI8(d[1] - d[2]), AsI8(d[3] - d[2])),
              comp |-> [pix_stream |-> stream, last_pix |-> pix, seen |-> seen2]]
        ELSE IF pix[4] = c.last_pix[4]
        THEN [some |-> TRUE, chunk |-> Rgb(pix[1], pix[2], pix[3]),
              comp |-> [pix_stream |-> stream, last_pix |-> pix, seen |-> seen2]]
        ELSE [some |-> TRUE, chunk |-> Rgba(pix[1], pix[2], pix[3], pix[4]),
              comp |-> [pix_stream |-> stream, last_pix |-> pix, seen |-> seen2]]

\* the part of next() after the run loop, which a run of length 1 falls into
EncodePixel(c, pix, stream) ==
    LET d == dr_dg_db(pix, c.last_pix)
        h == hash(pix)
        seen2 == [c.seen EXCEPT ![h] = pix]
    IN  IF c.seen[h] = pix
        THEN [some |-> TRUE, chunk |-> Index(h),
              comp |-> [pix_stream |-> stream, last_pix |-> pix, seen |-> c.seen]]
        ELSE IF DiffFits(d)
        THEN [some |-> TRUE, chunk |-> Diff(AsI8(d[1]), AsI8(d[2]), AsI8(d[3])),
              comp |-> [pix_stream |-> stream, last_pix |-> pix, seen |-> seen2]]
        ELSE IF LumaFits(d)
        THEN [some |-> TRUE,
              chunk |-> Luma(AsI8(d[2]), AsI8(d[1] - d[2]), AsI8(d[3] - d[2])),
              comp |-> [pix_stream |-> stream, last_pix |-> pix, seen |-> seen2]]
        ELSE IF pix[4] = c.last_pix[4]
        THEN [some |-> TRUE, chunk |-> Rgb(pix[1], pix[2], pix[3]),
              comp |-> [pix_stream |-> stream, last_pix |-> pix, seen |-> seen2]]
        ELSE [some |-> TRUE, chunk |-> Rgba(pix[1], pix[2], pix[3], pix[4]),
              comp |-> [pix_stream |-> stream, last_pix |-> pix, seen |-> seen2]]

\* self.pix_stream.next() is None
PixStreamAtEnd(c) == c.pix_stream >= NChunks4(pixels)

\* None at the end of the pixel stream, a panic when the slice taken is no
\* four bytes (try_into().unwrap()), else the chunk and the Compresser after it
CompresserNext(c) ==
    IF PixStreamAtEnd(c) THEN None
    ELSE
    LET pix == Chunk4(pixels, c.pix_stream + 1)
        rest == c.pix_stream + 1
    IN  IF Len(pix) # 4 THEN [some |-> TRUE, panic |-> TRUE, comp |-> c]
        ELSE IF c.last_pix = pix
        THEN LET run == RunExtend(rest, pix, 1)
             IN  IF run.length > 1
                 THEN [some |-> TRUE, chunk |-> Run(run.length),
                       comp |-> [c EXCEPT !.pix_stream = run.pix_stream]]
                 ELSE EncodePixel(c, pix, run.pix_stream)
        ELSE EncodePixel(c, pix, rest)

\* pixels.as_slice().compress()
CompresserInit ==
    [pix_stream |-> 0, last_pix |-> PixelInit, seen |-> SeenInit]

(***************************************************************************)
(* Assembler::next on one chunk: its bytes.                                *)
(***************************************************************************)
\* the Run byte without the bias of one
RunByteNoBias(length) == BitOr(192, BitAnd(length, 63))

\* 0b1100_0000 | (length & 0b0011_1111) - 1 : the subtraction binds tighter
\* than the or; it is a u8 subtraction
RunByte(length) == BitOr(192, (BitAnd(length, 63) - 1) % 256)

AssemblerNext(c) ==
    CASE c.tag = "Rgb" -> <<254, c.r, c.g, c.b>>
      [] c.tag = "Rgba" -> <<255, c.r, c.g, c.b, c.a>>
      [] c.tag = "Index" -> << BitAnd(AsU8(c.loc), 63) >>
      [] c.tag = "Diff" ->
            << BitOr(BitOr(BitOr(64, Shl8(AsU8(c.dr + 2), 4)),
                           Shl8(AsU8(c.dg + 2), 2)),
                     AsU8(c.db + 2)) >>
      [] c.tag = "Luma" ->
            << BitOr(128, AsU8(c.dg + 32)),
               BitOr(Shl8(AsU8(c.dr_dg + 8), 4), AsU8(c.db_dg + 8)) >>
      [] c.tag = "Run" -> << RunByte(c.length) >>

(***************************************************************************)
(* Parser::next on a byte stream: None when the stream ends, also in the   *)
(* middle of a chunk (each `?`), else the chunk and the bytes left.        *)
(***************************************************************************)
\* 0b00 => Index { loc: byte as usize }
ParseIndex(byte) == Index(byte)

\* 0b01 => Diff { dr: (byte >> 4 & 0b11) as i8 - 2, dg: (byte >> 2 & 0b11) as i8 - 2,
\*                db: (byte & 0b11) as i8 - 2 }
ParseDiff(byte) ==
    Diff(AsI8(BitAnd(Shr(byte, 4), 3)) - 2,
         AsI8(BitAnd(Shr(byte, 2), 3)) - 2,
         AsI8(BitAnd(byte, 3)) - 2)

\* the Luma arm with the mask of db_dg one bit short: next_byte & 0b111
ParseLumaMask7(byte, next_byte) ==
    Luma(AsI8(BitAnd(byte, 63)) - 32,
         AsI8(Shr(next_byte, 4)) - 8,
         AsI8(BitAnd(next_byte, 7)) - 8)

\* 0b10 => Luma { dg: (byte & 0b0011_1111) as i8 - 32, dr_dg: (next_byte >> 4) as i8 - 8,
\*                db_dg: (next_byte & 0b1111) as i8 - 8 }
ParseLuma(byte, next_byte) ==
    Luma(AsI8(BitAnd(byte, 63)) - 32,
         AsI8(Shr(next_byte, 4)) - 8,
         AsI8(BitAnd(next_byte, 15)) - 8)

\* 0b11 => Run { length: (byte & 0b11_1111) + 1 }
ParseRun(byte) == Run(BitAnd(byte, 63) + 1)

ParserNext(s) ==
    IF s = <<>> THEN [some |-> FALSE, byte_stream |-> s]
    ELSE
    LET byte == Head(s)
        t == Tail(s)
    IN  IF byte = 254
        THEN IF Len(t) < 3 THEN [some |-> FALSE, byte_stream |-> <<>>]
             ELSE [some |-> TRUE, chunk |-> Rgb(t[1], t[2], t[3]),
                   byte_stream |-> SubSeq(t, 4, Len(t))]
        ELSE IF byte = 255
        THEN IF Len(t) < 4 THEN [some |-> FALSE, byte_stream |-> <<>>]
             ELSE [some |-> TRUE, chunk |-> Rgba(t[1], t[2], t[3], t[4]),
                   byte_stream |-> SubSeq(t, 5, Len(t))]
        ELSE CASE Shr(byte, 6) = 0 ->
                    [some |-> TRUE, chunk |-> ParseIndex(byte), byte_stream |-> t]
               [] Shr(byte, 6) = 1 ->
                    [some |-> TRUE, chunk |-> ParseDiff(byte), byte_stream |-> t]
               [] Shr(byte, 6) = 2 ->
                    IF t = <<>> THEN [some |-> FALSE, byte_stream |-> <<>>]
                    ELSE [some |-> TRUE, chunk |-> ParseLuma(byte, t[1]),
                          byte_stream |-> Tail(t)]
               [] Shr(byte, 6) = 3 ->
                    [some |-> TRUE, chunk |-> ParseRun(byte), byte_stream |-> t]

(***************************************************************************)
(* Interpreter::next                                                       *)
(***************************************************************************)
\* .interpret(max_pix)
InterpreterInit(max_pix) ==
    [max_pix |-> max_pix, pix_count |-> 0, pixel |-> PixelInit, seen |-> SeenInit]

\* the pixel register after the chunk (the match of lines 201-231)
ApplyChunk(it, c) ==
    CASE c.tag = "Rgb" -> <<c.r, c.g, c.b, it.pixel[4]>>
      [] c.tag = "Rgba" -> <<c.r, c.g, c.b, c.a>>
      [] c.tag = "Index" -> it.seen[c.loc]
      [] c.tag = "Diff" ->
            << wrapping_add_signed(it.pixel[1], c.dr),
               wrapping_add_signed(it.pixel[2], c.dg),
               wrapping_add_signed(it.pixel[3], c.db),
               it.pixel[4] >>
      [] c.tag = "Luma" ->
            << wrapping_add_signed(it.pixel[1], c.dr_dg + c.dg),
               wrapping_add_signed(it.pixel[2], c.dg),
               wrapping_add_signed(it.pixel[3], c.db_dg + c.dg),
               it.pixel[4] >>
      [] c.tag = "Run" -> it.pixel

\* the number of pixels one chunk adds to the output: length - 1 in the Run
\* arm, then one for every chunk
PixelsOut(c) == IF c.tag = "Run" THEN (c.length - 1) + 1 ELSE 1

\* None when pix_count >= max_pix or the chunk stream is at its end, else the
\* bytes put out, the Interpreter after the chunk and the bytes left
InterpreterNext(it, s) ==
    IF it.pix_count >= it.max_pix THEN [some |-> FALSE, byte_stream |-> s]
    ELSE
    LET p == ParserNext(s)
    IN  IF ~p.some THEN [some |-> FALSE, byte_stream |-> p.byte_stream]
        ELSE
        LET px == ApplyChunk(it, p.chunk)
        IN  [some |-> TRUE,
             chunk |-> p.chunk,
             out |-> Repeat(px, PixelsOut(p.chunk)),
             interp |-> [it EXCEPT !.pixel = px,
                                   !.pix_count = it.pix_count + PixelsOut(p.chunk),
                                   !.seen = [it.seen EXCEPT ![hash(px)] = px]],
             byte_stream |-> p.byte_stream]

(***************************************************************************)
(* encode_img                                                              *)
(***************************************************************************)
\* pixels.chunks(4).all(|slice| *slice.last().unwrap() == 255)
AllOpaque(p) == \A i \in 1..NChunks4(p) : Chunk4(p, i)[Len(Chunk4(p, i))] = 255

\* the channels byte with any() in place of all()
ChannelsByteAny(p) ==
    IF \E i \in 1..NChunks4(p) : Chunk4(p, i)[Len(Chunk4(p, i))] = 255
    THEN 3 ELSE 4

\* the channels byte pushed at lines 79-83
ChannelsByte(p) == IF AllOpaque(p) THEN 3 ELSE 4

\* the header with the dimensions written least significant byte first
HeaderLittleEndian(w, h, p) ==
    Magic \o << w % 256, (w \div 256) % 256, (w \div 65536) % 256, (w \div 16777216) % 256 >>
          \o << h % 256, (h \div 256) % 256, (h \div 65536) % 256, (h \div 16777216) % 256 >>
          \o << ChannelsByte(p) >> \o << 1 >>

\* the fourteen bytes of `header`
Header(w, h, p) ==
    Magic \o to_be_bytes(w) \o to_be_bytes(h) \o << ChannelsByte(p) >> \o << 1 >>

Panicked(r) == "panic" \in DOMAIN r

\* the entry the history keeps of one Compresser::next: the chunk, the pixel
\* taken first, last_pix before the call, the place of that pixel in the
\* raster (from 1), the number of pixels taken from the stream, and slot
\* hash(pix) of seen before and after the call
LogEntry(c, r) ==
    LET pix == Chunk4(pixels, c.pix_stream + 1)
    IN  [chunk |-> r.chunk,
         pix |-> pix,
         prev |-> c.last_pix,
         at |-> c.pix_stream + 1,
         taken |-> r.comp.pix_stream - c.pix_stream,
         slot_before |-> c.seen[hash(pix)],
         slot_after |-> r.comp.seen[hash(pix)]]

\* lines 76-86: the header is built and the Compresser constructed
EncodeHeader ==
    /\ pc = "encode"
    /\ encoded' = Header(width, height, pixels)
    /\ comp' = CompresserInit
    /\ pc' = "compress"
    /\ UNCHANGED <<width, height, pixels, clog, data, hdr, interp, raster, ilog,
                   chunk_stream, input>>

\* one pull of compressed.assemble().flatten(): Assembler::next takes the
\* next chunk of the Compresser and yields its bytes
EncodeChunk ==
    /\ pc = "compress"
    /\ \E r \in {CompresserNext(comp)} :
           /\ r.some
           /\ IF Panicked(r)
              THEN /\ pc' = "panic"
                   /\ UNCHANGED <<comp, encoded, clog>>
              ELSE /\ comp' = r.comp
                   /\ encoded' = encoded \o AssemblerNext(r.chunk)
                   /\ clog' = Append(clog, LogEntry(comp, r))
                   /\ pc' = "compress"
    /\ UNCHANGED <<width, height, pixels, data, hdr, interp, raster, ilog,
                   chunk_stream, input>>

\* the Compresser is at its end: the end marker is chained and the bytes
\* collected are returned
EncodeFinish ==
    /\ pc = "compress"
    /\ PixStreamAtEnd(comp)
    /\ encoded' = encoded \o EndMarker
    /\ pc' = "encoded"
    /\ UNCHANGED <<width, height, pixels, comp, clog, data, hdr, interp, raster,
                   ilog, chunk_stream, input>>

(***************************************************************************)
(* parse_img                                                               *)
(***************************************************************************)
\* the digits base 256, least significant first, of the product of two u32
\* (the evaluator's integers end at 2^31 - 1, so the product is formed by digits)
MulDigits(a, b) ==
    LET x == [i \in 0..3 |-> to_be_bytes(a)[4 - i]]
        y == [i \in 0..3 |-> to_be_bytes(b)[4 - i]]
        Col(k) == LET P(i) == IF k - i \in 0..3 THEN x[i] * y[k - i] ELSE 0
                  IN  P(0) + P(1) + P(2) + P(3)
        c0 == Col(0)
        c1 == Col(1) + c0 \div 256
        c2 == Col(2) + c1 \div 256
        c3 == Col(3) + c2 \div 256
        c4 == Col(4) + c3 \div 256
        c5 == Col(5) + c4 \div 256
        c6 == Col(6) + c5 \div 256
    IN  << c0 % 256, c1 % 256, c2 % 256, c3 % 256, c4 % 256, c5 % 256, c6 % 256,
           c6 \div 256 >>

\* width * height on u32: the product when it fits in 32 bits; when it does
\* not, a build with overflow checks panics (-1) and one without wraps
MulU32(a, b) ==
    LET d == MulDigits(a, b)
        low == from_be_bytes(<<d[4], d[3], d[2], d[1]>>)
    IN  IF d[5] = 0 /\ d[6] = 0 /\ d[7] = 0 /\ d[8] = 0 THEN {low} ELSE {-1, low}

\* the header checks without the assertion on channels
HeaderOkAnyChannels(s) ==
    /\ Len(s) >= 14
    /\ SubSeq(s, 1, 4) = Magic
    /\ s[14] \in {0, 1}

\* lines 53-61: FALSE when an assertion or an unwrap of the header fails
HeaderOk(s) ==
    /\ Len(s) >= 4
    /\ SubSeq(s, 1, 4) = Magic
    /\ Len(s) >= 8
    /\ Len(s) >= 12
    /\ Len(s) >= 13
    /\ s[13] \in {3, 4}
    /\ Len(s) >= 14
    /\ s[14] \in {0, 1}

HeaderOf(s) ==
    [width |-> from_be_bytes(SubSeq(s, 5, 8)),
     height |-> from_be_bytes(SubSeq(s, 9, 12)),
     channels |-> s[13],
     colorspace |-> s[14]]

HeaderNone == [width |-> 0, height |-> 0, channels |-> 0, colorspace |-> 0]

\* lines 53-68: the header is read and checked, the Interpreter constructed
ParseHeader ==
    /\ pc = "parse"
    /\ IF ~HeaderOk(data)
       THEN /\ pc' = "panic"
            /\ UNCHANGED <<data, hdr, interp>>
       ELSE \E m \in MulU32(HeaderOf(data).width, HeaderOf(data).height) :
            /\ hdr' = HeaderOf(data)
            /\ data' = SubSeq(data, 15, Len(data))
            /\ IF m = -1
               THEN /\ pc' = "panic"
                    /\ UNCHANGED interp
               ELSE /\ pc' = "interpret"
                    /\ interp' = InterpreterInit(m)
    /\ UNCHANGED <<width, height, pixels, comp, encoded, clog, raster, ilog,
                   chunk_stream, input>>

\* one pull of .parse().interpret(..).flatten(): Interpreter::next takes the
\* next chunk of the Parser and yields its pixels
InterpretChunk ==
    /\ pc = "interpret"
    /\ \E r \in {InterpreterNext(interp, data)} :
           /\ r.some
           /\ interp' = r.interp
           /\ data' = r.byte_stream
           /\ raster' = raster \o r.out
           /\ ilog' = Append(ilog, [chunk |-> r.chunk,
                                    prev |-> interp.pixel,
                                    before |-> interp.pix_count,
                                    pixel |-> r.interp.pixel,
                                    slot_after |-> r.interp.seen[hash(r.interp.pixel)]])
    /\ UNCHANGED <<pc, width, height, pixels, comp, encoded, clog, hdr,
                   chunk_stream, input>>

\* the Interpreter is at its end: (width, height, collected bytes) is returned
ParseFinish ==
    /\ pc = "interpret"
    /\ \E r \in {InterpreterNext(interp, data)} :
           /\ ~r.some
           /\ data' = r.byte_stream
    /\ pc' = "done"
    /\ UNCHANGED <<width, height, pixels, comp, encoded, clog, hdr, interp,
                   raster, ilog, chunk_stream, input>>

(***************************************************************************)
(* Specification Spec: a raster is encoded and the file decoded again.     *)
(***************************************************************************)
\* the pixels a raster is made of
Pixels ==
    { <<0, 0, 0, 255>>, <<255, 0, 0, 255>>, <<0, 0, 0, 254>>,
      <<1, 0, 0, 255>>, <<0, 0, 0, 0>>, <<7, 0, 0, 255>> }

\* the lengths of a run of equal pixels: one, and the longest one Run holds
RunLens == {1, RunContinueMax + 1}

Segments == UNION { [1..n -> Pixels \X RunLens] : n \in 0..MaxSegs }

RECURSIVE Expand(_)
Expand(segs) ==
    IF segs = <<>> THEN <<>>
    ELSE Repeat(Head(segs)[1], Head(segs)[2]) \o Expand(Tail(segs))

Idle ==
    /\ comp = CompresserInit
    /\ encoded = <<>>
    /\ clog = <<>>
    /\ hdr = HeaderNone
    /\ interp = InterpreterInit(0)
    /\ raster = <<>>
    /\ ilog = <<>>
    /\ chunk_stream = <<>>

Init ==
    /\ \E segs \in Segments : pixels = Expand(segs)
    /\ width = Len(pixels) \div 4
    /\ height = 1
    /\ input = <<>>
    /\ data = <<>>
    /\ pc = "encode"
    /\ Idle

\* parse_img is called on the bytes encode_img returned
Feed ==
    /\ pc = "encoded"
    /\ data' = encoded
    /\ pc' = "parse"
    /\ UNCHANGED <<width, height, pixels, comp, encoded, clog, hdr, interp,
                   raster, ilog, chunk_stream, input>>

Next ==
    \/ EncodeHeader
    \/ EncodeChunk
    \/ EncodeFinish
    \/ Feed
    \/ ParseHeader
    \/ InterpretChunk
    \/ ParseFinish

Spec == Init /\ [][Next]_vars

(***************************************************************************)
(* Specification SpecDecode: parse_img on a file with a well-formed header *)
(* and a body of arbitrary chunk bytes, followed by the end marker.        *)
(***************************************************************************)
\* width and height of the header
Dims == { <<0, 0>>, <<1, 1>>, <<2, 1>>, <<1, 3>>, <<65536, 65536>> }

\* channels and colorspace of the header
HeaderTails == { <<3, 0>>, <<4, 1>> }

\* body bytes: Index 0, Index 53, Diff{0,0,+1}, a Luma tag, Run 1, Run 2,
\* Run 62, the Rgb tag and the Rgba tag
BodyBytes == {0, 53, 107, 160, 192, 193, 253, 254, 255}

SeqsUpTo(S, n) == UNION { [1..k -> S] : k \in 0..n }

InitDecode ==
    /\ \E d \in Dims, t \in HeaderTails, body \in SeqsUpTo(BodyBytes, MaxBody) :
          data = Magic \o to_be_bytes(d[1]) \o to_be_bytes(d[2]) \o t \o body \o EndMarker
    /\ input = data
    /\ pixels = <<>>
    /\ width = 0
    /\ height = 0
    /\ pc = "parse"
    /\ Idle

NextDecode ==
    \/ ParseHeader
    \/ InterpretChunk
    \/ ParseFinish

SpecDecode == InitDecode /\ [][NextDecode]_vars

(***************************************************************************)
(* Specification SpecFile: parse_img on files whose header may be malformed *)
(* or cut short and whose end marker may be missing or wrong.              *)
(***************************************************************************)
\* number of body bytes of such a file
MaxFileBody == 2

\* width and height of the header
FileDims == { <<0, 0>>, <<1, 1>>, <<2, 2>> }

\* body bytes: Diff{0,0,0}, Run 1, Run 2 and the Rgb tag
FileBytes == {106, 192, 193, 254}

\* what follows the body: the end marker, nothing, eight bytes that are not
\* the end marker
FileTails == { EndMarker, <<>>, <<0, 0, 0, 0, 0, 0, 0, 0>> }

\* the first four bytes: "qoif" and "qoig"
FileMagics == { Magic, <<113, 111, 105, 103>> }

\* a 1x1 file of one Run 1 with the given magic, channels and colorspace
FileWith(m, ch, cs) ==
    m \o to_be_bytes(1) \o to_be_bytes(1) \o <<ch, cs>> \o <<192>> \o EndMarker

Files ==
    { Magic \o to_be_bytes(d[1]) \o to_be_bytes(d[2]) \o <<4, 0>> \o body \o t :
        d \in FileDims, body \in SeqsUpTo(FileBytes, MaxFileBody), t \in FileTails }
    \cup { FileWith(m, ch, cs) : m \in FileMagics, ch \in 2..5, cs \in 0..2 }
    \cup { SubSeq(FileWith(Magic, 4, 0), 1, k) : k \in 0..13 }

InitFile ==
    /\ data \in Files
    /\ input = data
    /\ pixels = <<>>
    /\ width = 0
    /\ height = 0
    /\ pc = "parse"
    /\ Idle

SpecFile == InitFile /\ [][NextDecode]_vars

(***************************************************************************)
(* Specification SpecRaster: encode_img on a width, a height and a buffer  *)
(* of any length.                                                          *)
(***************************************************************************)
\* number of whole pixels of the buffer
MaxRasterPix == 2

\* the widths handed to encode_img; the height is 1
RasterWidths == 0..2

RasterPixels == { <<0, 0, 0, 255>>, <<9, 9, 9, 9>>, <<0, 0, 0, 0>> }

\* the bytes of a sequence of pixels
Flat(ps) == [i \in 1..(4 * Len(ps)) |-> ps[((i - 1) \div 4) + 1][((i - 1) % 4) + 1]]

\* buffers of whole pixels, and the same followed by one more byte
RasterBufs ==
    { Flat(ps) \o t : ps \in SeqsUpTo(RasterPixels, MaxRasterPix), t \in {<<>>, <<9>>} }

InitRaster ==
    /\ width \in RasterWidths
    /\ height = 1
    /\ pixels \in RasterBufs
    /\ input = <<>>
    /\ data = <<>>
    /\ pc = "encode"
    /\ Idle

NextEncode ==
    \/ EncodeHeader
    \/ EncodeChunk
    \/ EncodeFinish

SpecRaster == InitRaster /\ [][NextEncode]_vars

(***************************************************************************)
(* Specification SpecLive: encode_img on a raster, run to its end: every   *)
(* pull of the iterators that collect() drives is eventually made.         *)
(***************************************************************************)
SpecLive == Init /\ [][NextEncode]_vars /\ WF_vars(NextEncode)

(***************************************************************************)
(* Specification SpecEmit: encode_img on rasters that make the Compresser  *)
(* emit chunks with their fields at and around the ends of their ranges.   *)
(***************************************************************************)
\* number of equal pixels of a raster made of one pixel repeated
MaxEmitRun == 64

\* the first pixel of a raster of two pixels
EmitBase == <<40, 40, 40, 255>>

\* the second pixel: every dg in -33..32 with every dr-dg and db-dg in -9..8
EmitDeltas ==
    { <<dg + x, dg, dg + y>> : dg \in -33..32, x \in -9..8, y \in -9..8 }

EmitRasters ==
    { EmitBase \o << EmitBase[1] + d[1], EmitBase[2] + d[2], EmitBase[3] + d[3], 255 >> :
        d \in EmitDeltas }
    \cup { p \o q : p \in Pixels, q \in Pixels }
    \cup { Repeat(p, n) : p \in {PixelInit, EmitBase}, n \in 1..MaxEmitRun }

InitEmit ==
    /\ pixels \in EmitRasters
    /\ width = Len(pixels) \div 4
    /\ height = 1
    /\ input = <<>>
    /\ data = <<>>
    /\ pc = "encode"
    /\ Idle

SpecEmit == InitEmit /\ [][NextEncode]_vars

(***************************************************************************)
(* Specification SpecApply: parse_img on a 2x1 file whose body is an Rgba  *)
(* chunk followed by a Diff or a Luma chunk.                               *)
(***************************************************************************)
\* the pixel of the Rgba chunk: channels at both ends of the byte range
ApplyPrev == { <<0, 128, 255, 7>>, <<255, 0, 1, 200>> }

\* the bytes of every Diff chunk and of every Luma chunk
DeltaChunkBytes ==
    { <<b>> : b \in 64..127 } \cup { <<b, c>> : b \in 128..191, c \in 0..255 }

InitApply ==
    /\ \E p \in ApplyPrev, d \in DeltaChunkBytes :
           data = Magic \o to_be_bytes(2) \o to_be_bytes(1) \o <<4, 0>>
                  \o <<255>> \o p \o d \o EndMarker
    /\ input = data
    /\ pixels = <<>>
    /\ width = 0
    /\ height = 0
    /\ pc = "parse"
    /\ Idle

SpecApply == InitApply /\ [][NextDecode]_vars

(***************************************************************************)
(* Specification SpecChunk: one chunk is handed to the Assembler and its   *)
(* bytes to the Parser.                                                    *)
(***************************************************************************)
\* channel values of the Rgb and Rgba chunks
SampleBytes == {0, 1, 127, 128, 254, 255}

\* the chunks Parser::next can return
ParserChunks ==
    { Rgb(r, g, b) : r \in SampleBytes, g \in SampleBytes, b \in SampleBytes }
    \cup { Rgba(q[1], q[2], q[3], q[4]) :
             q \in SampleBytes \X SampleBytes \X SampleBytes \X SampleBytes }
    \cup { Index(loc) : loc \in 0..63 }
    \cup { Diff(dr, dg, db) : dr \in -2..1, dg \in -2..1, db \in -2..1 }
    \cup { Luma(dg, dr_dg, db_dg) : dg \in -32..31, dr_dg \in -8..7, db_dg \in -8..7 }
    \cup { Run(length) : length \in 1..62 }

InitChunk ==
    /\ \E c \in ParserChunks : input = c
    /\ chunk_stream = << input >>
    /\ data = <<>>
    /\ pixels = <<>>
    /\ width = 0
    /\ height = 0
    /\ pc = "assemble"
    /\ comp = CompresserInit
    /\ encoded = <<>>
    /\ clog = <<>>
    /\ hdr = HeaderNone
    /\ interp = InterpreterInit(0)
    /\ raster = <<>>
    /\ ilog = <<>>

\* Assembler::next on the chunk; its bytes become the Parser's byte stream
AssembleOne ==
    /\ pc = "assemble"
    /\ chunk_stream # <<>>
    /\ encoded' = AssemblerNext(Head(chunk_stream))
    /\ data' = encoded'
    /\ chunk_stream' = Tail(chunk_stream)
    /\ pc' = "reparse"
    /\ UNCHANGED <<width, height, pixels, comp, clog, hdr, interp, raster, ilog,
                   input>>

\* Parser::next on these bytes
ParseOne ==
    /\ pc = "reparse"
    /\ \E r \in {ParserNext(data)} :
           /\ data' = r.byte_stream
           /\ chunk_stream' = IF r.some THEN << r.chunk >> ELSE <<>>
    /\ pc' = "reparsed"
    /\ UNCHANGED <<width, height, pixels, comp, encoded, clog, hdr, interp,
                   raster, ilog, input>>

NextChunk ==
    \/ AssembleOne
    \/ ParseOne

SpecChunk == InitChunk /\ [][NextChunk]_vars

(***************************************************************************)
(* Specification SpecParse: a byte stream is parsed into chunks and the    *)
(* chunks are assembled again.                                             *)
(***************************************************************************)
\* bytes of a stream: an Index, a Diff, a Luma tag, a Run, the Rgb tag and
\* the Rgba tag
ParseBytes == {63, 106, 160, 253, 254, 255}

\* every stream of one byte, every stream of a Luma tag and one more byte,
\* and the streams of up to MaxBytes bytes of ParseBytes
ByteStreams ==
    { <<x>> : x \in 0..255 }
    \cup { <<x, y>> : x \in 128..191, y \in 0..255 }
    \cup SeqsUpTo(ParseBytes, MaxBytes)

InitParse ==
    /\ \E b \in ByteStreams : data = b
    /\ input = data
    /\ pixels = <<>>
    /\ width = 0
    /\ height = 0
    /\ pc = "pipe"
    /\ Idle

\* Parser::next returns a chunk
ParseChunk ==
    /\ pc = "pipe"
    /\ \E r \in {ParserNext(data)} :
           /\ r.some
           /\ data' = r.byte_stream
           /\ chunk_stream' = Append(chunk_stream, r.chunk)
    /\ UNCHANGED <<pc, width, height, pixels, comp, encoded, clog, hdr, interp,
                   raster, ilog, input>>

\* Parser::next returns None: the chunk stream is at its end
ParseEnd ==
    /\ pc = "pipe"
    /\ \E r \in {ParserNext(data)} :
           /\ ~r.some
           /\ data' = r.byte_stream
    /\ pc' = "drain"
    /\ UNCHANGED <<width, height, pixels, comp, encoded, clog, hdr, interp,
                   raster, ilog, chunk_stream, input>>

\* Assembler::next on the next chunk of the chunk stream
AssembleChunk ==
    /\ pc \in {"pipe", "drain"}
    /\ chunk_stream # <<>>
    /\ encoded' = encoded \o AssemblerNext(Head(chunk_stream))
    /\ chunk_stream' = Tail(chunk_stream)
    /\ UNCHANGED <<pc, width, height, pixels, comp, clog, data, hdr, interp,
                   raster, ilog, input>>

NextParse ==
    \/ ParseChunk
    \/ ParseEnd
    \/ AssembleChunk

SpecParse == InitParse /\ [][NextParse]_vars

(***************************************************************************)
(* RawImage of src/src/img.rs: the raster on a byte pipe.                  *)
(***************************************************************************)
\* RawImage::to_bytes
to_bytes(w, h, p) == to_be_bytes(w) \o to_be_bytes(h) \o p

\* the length of the two dimensions in front of the pixel bytes
RawHeaderLen == 8

\* RawImage::from_bytes: a panic when a range of a slice expression lies
\* outside the slice or ends before it starts, Err when the length check
\* fails, else Ok with the bytes of the range 8..width*height*4
from_bytes(bytes) ==
    IF Len(bytes) < 4 THEN [tag |-> "panic"]
    ELSE IF Len(bytes) < RawHeaderLen THEN [tag |-> "panic"]
    ELSE
    LET w == from_be_bytes(SubSeq(bytes, 1, 4))
        h == from_be_bytes(SubSeq(bytes, 5, 8))
        n == w * h * 4
    IN  IF Len(bytes) # n + RawHeaderLen THEN [tag |-> "Err"]
        ELSE IF n < RawHeaderLen THEN [tag |-> "panic"]
        ELSE [tag |-> "Ok", width |-> w, height |-> h,
              data |-> SubSeq(bytes, RawHeaderLen + 1, n)]

(***************************************************************************)
(* Specification SpecRaw: a raster is written to a byte pipe and read      *)
(* back, or a byte sequence of any length is read from the pipe.           *)
(***************************************************************************)
\* the largest width of a raster on the pipe
MaxRawDim == 2

\* number of bytes after the dimensions of a sequence read from the pipe
MaxRawTail == 5

RawWidths == 0..MaxRawDim

RawHeights == {1, 2}

RawPixels == { <<1, 2, 3, 4>>, <<5, 6, 7, 8>> }

\* the rasters (W, H, P) with len(P) = 4*W*H
RawImages ==
    { <<w, h, Flat(ps)>> : w \in RawWidths, h \in RawHeights,
                           ps \in SeqsUpTo(RawPixels, MaxRawDim * 2) }

\* byte sequences: two small dimensions and a tail of any length, and the
\* sequences too short to hold the dimensions
RawBytes ==
    { to_be_bytes(w) \o to_be_bytes(h) \o t :
        w \in RawWidths, h \in RawWidths, t \in SeqsUpTo({0, 7}, MaxRawTail) }
    \cup SeqsUpTo({0, 1}, RawHeaderLen - 1)

InitRaw ==
    /\ \/ /\ \E r \in RawImages :
                /\ Len(r[3]) = 4 * r[1] * r[2]
                /\ width = r[1]
                /\ height = r[2]
                /\ pixels = r[3]
          /\ data = <<>>
          /\ pc = "to_bytes"
       \/ /\ data \in RawBytes
          /\ width = 0
          /\ height = 0
          /\ pixels = <<>>
          /\ pc = "from_bytes"
    /\ input = data
    /\ Idle

\* RawImage(width, height, pixels).to_bytes() is written to the pipe
ToBytes ==
    /\ pc = "to_bytes"
    /\ data' = to_bytes(width, height, pixels)
    /\ input' = data'
    /\ pc' = "from_bytes"
    /\ UNCHANGED <<width, height, pixels, comp, encoded, clog, hdr, interp,
                   raster, ilog, chunk_stream>>

\* RawImage::from_bytes on the bytes of the pipe
FromBytes ==
    /\ pc = "from_bytes"
    /\ \E r \in {from_bytes(data)} :
           /\ pc' = r.tag
           /\ IF r.tag = "Ok"
              THEN /\ hdr' = [hdr EXCEPT !.width = r.width, !.height = r.height]
                   /\ raster' = r.data
              ELSE UNCHANGED <<hdr, raster>>
    /\ UNCHANGED <<width, height, pixels, comp, encoded, clog, data, interp,
                   ilog, chunk_stream, input>>

NextRaw ==
    \/ ToBytes
    \/ FromBytes

SpecRaw == InitRaw /\ [][NextRaw]_vars

(***************************************************************************)
(* parse_img of src/src/ppm.rs.                                            *)
(***************************************************************************)
\* u8::is_ascii_whitespace: tab, line feed, form feed, carriage return, space
is_ascii_whitespace(b) == b \in {9, 10, 12, 13, 32}

\* u8::is_ascii_digit
is_ascii_digit(b) == b \in 48..57

\* the stream after consume_ascii_whitespace
consume_ascii_whitespace(stream) ==
    LET rest == { i \in 1..Len(stream) : ~is_ascii_whitespace(stream[i]) }
    IN  IF rest = {} THEN <<>>
        ELSE SubSeq(stream, CHOOSE i \in rest : \A j \in rest : i <= j, Len(stream))

\* the stream after the comment lines: while the next byte is '#', the bytes
\* up to and including the next line feed (or the end of the stream) are taken
RECURSIVE consume_comments(_)
consume_comments(stream) ==
    IF stream = <<>> \/ Head(stream) # 35 THEN stream
    ELSE LET lf == { i \in 1..Len(stream) : stream[i] = 10 }
         IN  IF lf = {} THEN <<>>
             ELSE consume_comments(
                      SubSeq(stream, (CHOOSE i \in lf : \A j \in lf : i <= j) + 1,
                             Len(stream)))

\* consume_ascii_dec: the digits are taken while the next byte is a digit;
\* peek().unwrap() panics when the stream ends first
RECURSIVE consume_ascii_dec(_, _)
consume_ascii_dec(stream, buffer) ==
    IF stream = <<>> THEN [panic |-> TRUE, value |-> buffer, stream |-> stream]
    ELSE IF is_ascii_digit(Head(stream))
    THEN consume_ascii_dec(Tail(stream), buffer * 10 + (Head(stream) - 48))
    ELSE [panic |-> FALSE, value |-> buffer, stream |-> stream]

\* lines 21-42: the header; ok is FALSE when an assertion or an unwrap fails
PpmHeader(data0) ==
    LET bad == [ok |-> FALSE]
    IN  IF Len(data0) < 1 \/ data0[1] # 80 THEN bad
        ELSE IF Len(data0) < 2 \/ data0[2] # 54 THEN bad
        ELSE
        LET s1 == consume_ascii_whitespace(SubSeq(data0, 3, Len(data0)))
            s2 == consume_comments(s1)
            s3 == consume_ascii_whitespace(s2)
            w  == consume_ascii_dec(s3, 0)
        IN  IF w.panic THEN bad
            ELSE
            LET h == consume_ascii_dec(consume_ascii_whitespace(w.stream), 0)
            IN  IF h.panic THEN bad
                ELSE
                LET mx == consume_ascii_dec(consume_ascii_whitespace(h.stream), 0)
                IN  IF mx.panic \/ mx.value # 255 THEN bad
                    ELSE IF mx.stream = <<>> \/ Head(mx.stream) # 10 THEN bad
                    ELSE [ok |-> TRUE, width |-> w.value, height |-> h.value,
                          stream |-> Tail(mx.stream)]

\* stream.space_n(255, 3).collect(): SpaceN::next until it returns None.
\* With count >= period the spacer is put out and count reset; else count is
\* advanced and the next item of the stream put out, None at its end
RECURSIVE SpaceNCollect(_, _, _, _)
SpaceNCollect(stream, count, period, spacer) ==
    IF count >= period
    THEN <<spacer>> \o SpaceNCollect(stream, 0, period, spacer)
    ELSE IF stream = <<>> THEN <<>>
    ELSE <<Head(stream)>> \o SpaceNCollect(Tail(stream), count + 1, period, spacer)

(***************************************************************************)
(* Specification SpecPpm: ppm parse_img on a header and a body of any      *)
(* length.                                                                 *)
(***************************************************************************)
\* number of body bytes
MaxPpmBody == 7

\* the decimal digit of a dimension below ten
PpmDigit(n) == << 48 + n >>

\* "255"
PpmMaxval == << 50, 53, 53 >>

\* headers "P6<ws>W<ws>H<ws>255\n" for small W and H, one of them with a
\* comment line; then a header of magic P5, one of maxval 254 and one that
\* ends before the line feed after the maxval
PpmHeaders ==
    { <<80, 54>> \o ws \o PpmDigit(w) \o <<32>> \o PpmDigit(h) \o <<10>>
          \o PpmMaxval \o <<10>> :
        ws \in { <<10>>, <<32>>, <<10, 35, 99, 10>> }, w \in 0..2, h \in 1..2 }
    \cup { <<80, 53, 10, 49, 32, 49, 10>> \o PpmMaxval \o <<10>>,
            <<80, 54, 10, 49, 32, 49, 10, 50, 53, 52, 10>>,
            <<80, 54, 10, 49, 32, 49, 10>> \o PpmMaxval }

InitPpm ==
    /\ \E h \in PpmHeaders, body \in SeqsUpTo({7, 255}, MaxPpmBody) :
           data = h \o body
    /\ input = data
    /\ pixels = <<>>
    /\ width = 0
    /\ height = 0
    /\ pc = "ppm"
    /\ Idle

\* lines 21-42: the header is read; the stream is left at the image data
PpmParseHeader ==
    /\ pc = "ppm"
    /\ \E r \in {PpmHeader(data)} :
           IF r.ok
           THEN /\ hdr' = [hdr EXCEPT !.width = r.width, !.height = r.height]
                /\ data' = r.stream
                /\ pc' = "ppm_body"
           ELSE /\ pc' = "panic"
                /\ UNCHANGED <<hdr, data>>
    /\ UNCHANGED <<width, height, pixels, comp, encoded, clog, interp, raster,
                   ilog, chunk_stream, input>>

\* lines 45-46: the pixel buffer is collected and (width, height, buffer)
\* returned
PpmCollect ==
    /\ pc = "ppm_body"
    /\ raster' = SpaceNCollect(data, 0, 3, 255)
    /\ data' = <<>>
    /\ pc' = "ppm_done"
    /\ UNCHANGED <<width, height, pixels, comp, encoded, clog, hdr, interp,
                   ilog, chunk_stream, input>>

NextPpm ==
    \/ PpmParseHeader
    \/ PpmCollect

SpecPpm == InitPpm /\ [][NextPpm]_vars

(***************************************************************************)
(* Specification SpecPpmHeader: ppm parse_img on headers whose width is    *)
(* preceded by a mix of whitespace and comment lines.                      *)
(***************************************************************************)
\* number of whitespace bytes and comment lines in front of the width
MaxPpmPre == 4

\* a line feed, a space, and the comment line "#c\n"
PpmPreTokens == { <<10>>, <<32>>, <<35, 99, 10>> }

RECURSIVE Concat(_)
Concat(ss) == IF ss = <<>> THEN <<>> ELSE Head(ss) \o Concat(Tail(ss))

\* "P6", the mix, a width of 1 or 12, a space, a height of 2, a line feed,
\* a maxval of 255 or 254, a line feed or a space, and a body
PpmMixedHeaders ==
    { <<80, 54>> \o Concat(pre) \o w \o <<32, 50, 10>> \o mx \o t \o body :
        pre \in SeqsUpTo(PpmPreTokens, MaxPpmPre),
        w \in { <<49>>, <<49, 50>> },
        mx \in { PpmMaxval, <<50, 53, 52>> },
        t \in { <<10>>, <<32>> },
        body \in { <<>>, <<7, 7, 7>> } }

InitPpmHeader ==
    /\ data \in PpmMixedHeaders
    /\ input = data
    /\ pixels = <<>>
    /\ width = 0
    /\ height = 0
    /\ pc = "ppm"
    /\ Idle

SpecPpmHeader == InitPpmHeader /\ [][NextPpm]_vars

(***************************************************************************)
(* Properties of Spec.                                                     *)
(***************************************************************************)
\* the i-th pixel of the input raster
PixelAt(i) == SubSeq(pixels, 4 * i - 3, 4 * i)

NPixels == Len(pixels) \div 4

\* the chunk bytes of the encoded file: what lies between the fourteen
\* header bytes and the eight bytes of the end marker
Body == SubSeq(encoded, 15, Len(encoded) - 8)

\* C1: QOI round-trip: decoding the encoding of a raster (W, H, P) with
\* len(P) = 4*W*H returns (W, H, P) byte for byte, also when alpha changes
\* between consecutive pixels.
C1_RoundTrip ==
    pc = "done" => /\ hdr.width = width
                   /\ hdr.height = height
                   /\ raster = pixels

\* C2: the Compresser never emits a Diff or a Luma chunk for a pixel whose
\* alpha differs from the alpha of the previous pixel.
C2_NoDeltaChunkOnAlphaChange ==
    \A i \in DOMAIN clog :
        clog[i].chunk.tag \in {"Diff", "Luma"} => clog[i].pix[4] = clog[i].prev[4]

\* C3: the channels byte of the header written by encode_img is 3 if and
\* only if every pixel of the input has alpha 255, and 4 otherwise.
C3_ChannelsByte ==
    pc \in {"compress", "encoded"} =>
        /\ encoded[13] \in {3, 4}
        /\ encoded[13] = 3 <=> \A i \in 1..NPixels : pixels[4 * i] = 255

\* C3 witness: a raster mixing an opaque and a non-opaque pixel has been
\* encoded, and its channels byte is 4.
C3_Witness ==
    /\ pc = "encoded"
    /\ encoded[13] = 4
    /\ \E i \in 1..NPixels : pixels[4 * i] = 255
    /\ \E i \in 1..NPixels : pixels[4 * i] # 255

\* C4 as claimed: the 1x1 raster (255,0,0,255) encodes to the header
\* 71 6F 69 66 00 00 00 01 00 00 00 01 04 01, the body FE FF 00 00 and the
\* end marker 00 00 00 00 00 00 00 01.
C4_RedPixelChannels4 ==
    (pc = "encoded" /\ width = 1 /\ height = 1 /\ pixels = <<255, 0, 0, 255>>) =>
        encoded = <<113, 111, 105, 102, 0, 0, 0, 1, 0, 0, 0, 1, 4, 1,
                    254, 255, 0, 0,
                    0, 0, 0, 0, 0, 0, 0, 1>>

\* C4 as amended: the 1x1 raster (255,0,0,255) encodes to the header
\* 71 6F 69 66 00 00 00 01 00 00 00 01 03 01 (channels byte 3, the pixel
\* being opaque), the body FE FF 00 00 and the end marker
\* 00 00 00 00 00 00 00 01.
C4_RedPixelChannels3 ==
    (pc = "encoded" /\ width = 1 /\ height = 1 /\ pixels = <<255, 0, 0, 255>>) =>
        encoded = <<113, 111, 105, 102, 0, 0, 0, 1, 0, 0, 0, 1, 3, 1,
                    254, 255, 0, 0,
                    0, 0, 0, 0, 0, 0, 0, 1>>

\* C4 witness: the 1x1 raster (255,0,0,255) has been encoded.
C4_Witness ==
    /\ pc = "encoded"
    /\ width = 1
    /\ height = 1
    /\ pixels = <<255, 0, 0, 255>>
    /\ Len(clog) = 1
    /\ clog[1].chunk = Rgb(255, 0, 0)

\* C5: the channel deltas wrap modulo 256: with previous (255,0,0,255) and
\* next pixel (0,0,0,255) not in the seen table, the chunk is Diff{+1,0,0}.
C5_WrapAroundDiff ==
    \A i \in DOMAIN clog :
        (/\ clog[i].prev = <<255, 0, 0, 255>>
         /\ clog[i].pix = <<0, 0, 0, 255>>
         /\ clog[i].slot_before # clog[i].pix)
        => clog[i].chunk = Diff(1, 0, 0)

\* C6: a pixel equal to the previous pixel is always emitted as a Run, also
\* when only one such pixel is available: 63 pixels (0,0,0,255) encode to the
\* body FD C0, and two pixels (0,0,0,255) to the body C1.
C6_EqualPixelIsRun ==
    /\ \A i \in DOMAIN clog :
          clog[i].pix = clog[i].prev =>
              clog[i].chunk.tag = "Run" /\ clog[i].chunk.length >= 1
    /\ (pc = "encoded" /\ pixels = Repeat(PixelInit, 63)) => Body = <<253, 192>>
    /\ (pc = "encoded" /\ pixels = Repeat(PixelInit, 2)) => Body = <<193>>

\* C7: every Run has 1 <= length <= 62; the pixels it takes are length
\* pixels equal to the previous pixel; a Run shorter than 62 ends only at
\* the end of the raster or before a pixel that differs, so it is never
\* followed by another Run; and the chunk after a Run encodes the pixel right
\* after the run, which the Run has not taken.
C7_RunShape ==
    \A i \in DOMAIN clog :
        clog[i].chunk.tag = "Run" =>
            LET n == clog[i].chunk.length
                at == clog[i].at
            IN  /\ 1 <= n /\ n <= 62
                /\ clog[i].taken = n
                /\ at + n - 1 <= NPixels
                /\ \A k \in at..(at + n - 1) : PixelAt(k) = clog[i].prev
                /\ (n < 62 /\ at + n <= NPixels) => PixelAt(at + n) # clog[i].prev
                /\ i < Len(clog) =>
                      /\ clog[i + 1].at = at + n
                      /\ clog[i + 1].pix = PixelAt(at + n)
                      /\ n < 62 => /\ clog[i + 1].chunk.tag # "Run"
                                   /\ clog[i + 1].pix # clog[i].prev

\* C7 witness: a Run shorter than 62 was followed by the chunk of a pixel
\* that differs from the pixel of the run.
C7_Witness ==
    \E i \in DOMAIN clog :
        /\ clog[i].chunk.tag = "Run"
        /\ clog[i].chunk.length < 62
        /\ i < Len(clog)
        /\ clog[i + 1].pix # clog[i].pix
        /\ clog[i + 1].at = clog[i].at + clog[i].chunk.length

(***************************************************************************)
(* Properties of SpecChunk and SpecParse.                                  *)
(***************************************************************************)
\* C8: for every chunk c the Parser can produce, parsing the bytes the
\* Assembler emits for c yields exactly c (and takes all of these bytes).
C8_ParseAssemble ==
    pc = "reparsed" => chunk_stream = << input >> /\ data = <<>>

\* C8 witness: a Luma chunk at the upper end of its ranges went through the
\* Assembler and the Parser.
C8_Witness ==
    /\ pc = "reparsed"
    /\ input = Luma(31, 7, 7)
    /\ encoded = <<191, 255>>

\* the number of bytes the Parser reads for a chunk with this tag byte
ChunkLen(byte) ==
    IF byte = 254 THEN 4
    ELSE IF byte = 255 THEN 5
    ELSE IF Shr(byte, 6) = 2 THEN 2
    ELSE 1

\* the stream is made of whole chunks
RECURSIVE WholeChunks(_)
WholeChunks(b) ==
    \/ b = <<>>
    \/ /\ Len(b) >= ChunkLen(Head(b))
       /\ WholeChunks(SubSeq(b, ChunkLen(Head(b)) + 1, Len(b)))

\* C9: for every byte sequence b made of whole chunks, the concatenation of
\* the Assembler's output over the Parser's chunk stream of b is b.
C9_AssembleParse ==
    (pc = "drain" /\ chunk_stream = <<>> /\ WholeChunks(input)) => encoded = input

\* C9 witness: a stream of two chunks, an Rgb chunk among them, was parsed
\* and assembled again.
C9_Witness ==
    /\ pc = "drain"
    /\ chunk_stream = <<>>
    /\ WholeChunks(input)
    /\ Len(input) = 5
    /\ \E i \in 1..2 : input[i] = 254
    /\ encoded = input

(***************************************************************************)
(* Properties of SpecDecode.                                               *)
(***************************************************************************)
\* C10: when a Run takes the number of pixels produced past W*H, decoding
\* fails: parse_img never returns with more than W*H pixels produced, that
\* is with more than 4*W*H bytes.
C10_OverrunRejected ==
    pc = "done" =>
        /\ interp.pix_count <= interp.max_pix
        /\ (hdr.width < 32768 /\ hdr.height < 32768) =>
              Len(raster) <= 4 * hdr.width * hdr.height

(***************************************************************************)
(* Properties of SpecFile.                                                 *)
(***************************************************************************)
\* C11: when the chunk stream ends before W*H pixels have been produced,
\* decoding fails: parse_img never returns a pixel buffer shorter than
\* 4*W*H bytes.
C11_TruncatedRejected ==
    pc = "done" => Len(raster) >= 4 * hdr.width * hdr.height

\* C12: once W*H pixels have been produced, parse_img returns only when the
\* eight bytes that follow the last chunk it decoded are the end marker
\* 00 00 00 00 00 00 00 01.
C12_EndMarkerChecked ==
    (pc = "done" /\ interp.pix_count >= interp.max_pix)
    => /\ Len(data) >= 8
       /\ SubSeq(data, 1, 8) = EndMarker

\* C14: an input shorter than the 14-byte header, or whose first four bytes
\* are not "qoif", or whose channels byte is not 3 or 4, or whose colorspace
\* byte is not 0 or 1, is rejected by parse_img before any pixel is produced.
C14_BadHeaderRejected ==
    ( \/ Len(input) < 14
      \/ SubSeq(input, 1, 4) # Magic
      \/ input[13] \notin {3, 4}
      \/ input[14] \notin {0, 1} )
    => /\ pc \in {"parse", "panic"}
       /\ raster = <<>>
       /\ ilog = <<>>
       /\ interp = InterpreterInit(0)

\* parse_img has rejected a file of full length whose only defect is a
\* channels byte of 5
C14_Witness ==
    /\ pc = "panic"
    /\ input = FileWith(Magic, 5, 1)
    /\ raster = <<>>

(***************************************************************************)
(* Properties of SpecParse: the end of the chunk stream.                   *)
(***************************************************************************)
\* C13: the Parser ends the chunk stream without an error only at the end of
\* a whole chunk: an input that ends after the tag byte of an Rgb, Rgba or
\* Luma chunk and before all of its extra bytes does not end it silently.
C13_TruncationSurfaced ==
    pc = "drain" => WholeChunks(input)

(***************************************************************************)
(* Properties of SpecRaster.                                               *)
(***************************************************************************)
\* C15: encode_img produces output only for a raster whose byte length is
\* 4*W*H; a buffer of another length is not encoded.
C15_MalformedRasterRejected ==
    pc = "encoded" => Len(pixels) = 4 * width * height

(***************************************************************************)
(* Properties of SpecRaw.                                                  *)
(***************************************************************************)
\* C16: for every raster (W, H, P) with len(P) = 4*W*H, from_bytes of its
\* to_bytes succeeds and returns (W, H, P), P being all 4*W*H trailing bytes.
C16_RawRoundTrip ==
    ( /\ pc \in {"Ok", "Err", "panic"}
      /\ Len(pixels) = 4 * width * height
      /\ input = to_bytes(width, height, pixels) )
    => /\ pc = "Ok"
       /\ hdr.width = width
       /\ hdr.height = height
       /\ raster = pixels
       /\ Len(raster) = 4 * hdr.width * hdr.height

\* C17: from_bytes returns an error value, and does not abort, for every
\* byte sequence shorter than eight bytes or whose length is not 8 + 4*W*H
\* for the W, H of its first eight bytes.
C17_RawLengthMismatchIsErr ==
    ( /\ pc \in {"Ok", "Err", "panic"}
      /\ \/ Len(input) < 8
         \/ Len(input) # 8 + 4 * from_be_bytes(SubSeq(input, 1, 4))
                                * from_be_bytes(SubSeq(input, 5, 8)) )
    => pc = "Err"

(***************************************************************************)
(* Properties of SpecPpm.                                                  *)
(***************************************************************************)
\* the first n pixels of an RGB body, each followed by A = 255
RgbToRgba(body, n) ==
    [i \in 1..(4 * n) |->
        IF i % 4 = 0 THEN 255 ELSE body[3 * ((i - 1) \div 4) + ((i - 1) % 4) + 1]]

\* C18: when ppm parse_img accepts an input with header dimensions W, H, the
\* body has at least 3*W*H bytes and the buffer returned has exactly 4*W*H
\* bytes: the first 3*W*H body bytes three at a time, each triple followed
\* by 255.
C18_PpmBuffer ==
    [][ (pc = "ppm_body" /\ pc' = "ppm_done")
        => /\ Len(data) >= 3 * hdr.width * hdr.height
           /\ Len(raster') = 4 * hdr.width * hdr.height
           /\ raster' = RgbToRgba(data, hdr.width * hdr.height) ]_vars

(***************************************************************************)
(* Properties of Spec: the seen table and the Luma chunk.                  *)
(***************************************************************************)
\* C19: after every chunk the Compresser emitted (a Run included) and after
\* every chunk the Interpreter decoded, slot hash(p) of that component's
\* seen table holds p, the pixel just emitted or decoded.
C19_SeenHoldsPixel ==
    /\ \A i \in DOMAIN clog : clog[i].slot_after = clog[i].pix
    /\ \A i \in DOMAIN ilog : ilog[i].slot_after = ilog[i].pixel

\* C20: a pixel that is emitted neither as Run nor as Index nor as Diff,
\* whose alpha is the previous alpha and whose deltas satisfy dg in [-32,31],
\* dr-dg in [-8,7] and db-dg in [-8,7], bounds included, is emitted as
\* Luma{dg, dr-dg, db-dg}.
C20_LumaInclusiveBounds ==
    \A i \in DOMAIN clog :
        LET e == clog[i]
            dr == e.pix[1] - e.prev[1]
            dg == e.pix[2] - e.prev[2]
            db == e.pix[3] - e.prev[3]
        IN  ( /\ e.chunk.tag \notin {"Run", "Index", "Diff"}
              /\ e.pix[4] = e.prev[4]
              /\ dg \in -32..31
              /\ (dr - dg) \in -8..7
              /\ (db - dg) \in -8..7 )
            => e.chunk = Luma(dg, dr - dg, db - dg)

(***************************************************************************)
(* Properties of Spec: the order of the rules and the alpha channel.       *)
(***************************************************************************)
\* C21: a pixel that differs from the previous pixel, equals the pixel in
\* its slot of the seen table and is within Diff or Luma range of the
\* previous pixel is emitted as Index{hash(p)}, not as Diff or Luma.
C21_IndexBeforeDelta ==
    \A i \in DOMAIN clog :
        LET e == clog[i]
            dr == e.pix[1] - e.prev[1]
            dg == e.pix[2] - e.prev[2]
            db == e.pix[3] - e.prev[3]
        IN  ( /\ e.pix # e.prev
              /\ e.slot_before = e.pix
              /\ \/ {dr, dg, db} \subseteq -2..1
                 \/ dg \in -32..31 /\ (dr - dg) \in -8..7 /\ (db - dg) \in -8..7 )
            => e.chunk = Index(hash(e.pix))

\* C21 witness: (1,0,0,255) comes back after (0,0,0,255): it is in its slot
\* of the seen table and one step of Diff away from the previous pixel, and
\* Index was emitted.
C21_Witness ==
    \E i \in DOMAIN clog :
        /\ clog[i].pix = <<1, 0, 0, 255>>
        /\ clog[i].prev = <<0, 0, 0, 255>>
        /\ clog[i].slot_before = clog[i].pix
        /\ clog[i].chunk = Index(hash(<<1, 0, 0, 255>>))

\* C22: Rgb is emitted only for a pixel whose alpha is the alpha of the
\* previous pixel, and a pixel whose alpha differs from it is emitted as
\* Rgba and as no other chunk.
C22_AlphaChangeIsRgba ==
    \A i \in DOMAIN clog :
        /\ clog[i].chunk.tag = "Rgb" => clog[i].pix[4] = clog[i].prev[4]
        /\ clog[i].pix[4] # clog[i].prev[4] => clog[i].chunk.tag = "Rgba"

(***************************************************************************)
(* Properties of SpecApply.                                                *)
(***************************************************************************)
\* C23: the Interpreter applies Diff{dr,dg,db} by adding dr, dg, db to the
\* previous R, G, B modulo 256 and Luma{dg,dr_dg,db_dg} by adding dr_dg+dg,
\* dg, db_dg+dg modulo 256; alpha stays; and for every Luma chunk the Parser
\* returns, dr_dg+dg and db_dg+dg lie within the signed 8-bit range.
C23_WrappingDeltas ==
    \A i \in DOMAIN ilog :
        LET e == ilog[i]
            c == e.chunk
        IN  /\ c.tag = "Diff" =>
                  e.pixel = << (e.prev[1] + c.dr) % 256, (e.prev[2] + c.dg) % 256,
                               (e.prev[3] + c.db) % 256, e.prev[4] >>
            /\ c.tag = "Luma" =>
                  /\ (c.dr_dg + c.dg) \in -128..127
                  /\ (c.db_dg + c.dg) \in -128..127
                  /\ e.pixel = << (e.prev[1] + c.dr_dg + c.dg) % 256,
                                  (e.prev[2] + c.dg) % 256,
                                  (e.prev[3] + c.db_dg + c.dg) % 256, e.prev[4] >>

\* C23 witness: Luma{-32,-8,+7} was applied to (0,128,255,7): red wrapped
\* below 0 and alpha stayed 7.
C23_Witness ==
    \E i \in DOMAIN ilog :
        /\ ilog[i].chunk = Luma(-32, -8, 7)
        /\ ilog[i].prev = <<0, 128, 255, 7>>
        /\ ilog[i].pixel = <<216, 96, 230, 7>>

(***************************************************************************)
(* Properties of SpecFile: the end marker and the Parser.                  *)
(***************************************************************************)
\* C24: the eight bytes of the end marker that close a file are never taken
\* by the Parser: while parse_img decodes and when it returns, they are
\* still in the byte stream, so no chunk and no pixel comes from them.
C24_EndMarkerNotParsed ==
    ( /\ pc \in {"interpret", "done"}
      /\ Len(input) >= 22
      /\ SubSeq(input, Len(input) - 7, Len(input)) = EndMarker )
    => Len(data) >= 8

(***************************************************************************)
(* Properties of SpecPpmHeader.                                            *)
(***************************************************************************)
\* a PPM header read as the format describes it: any mix of whitespace and
\* comment lines in front of the width
RECURSIVE SkipWhitespaceAndComments(_)
SkipWhitespaceAndComments(s) ==
    IF s = <<>> THEN s
    ELSE IF Head(s) \in {9, 10, 12, 13, 32} THEN SkipWhitespaceAndComments(Tail(s))
    ELSE IF Head(s) = 35
    THEN LET lf == { i \in 1..Len(s) : s[i] = 10 }
         IN  IF lf = {} THEN <<>>
             ELSE SkipWhitespaceAndComments(
                      SubSeq(s, (CHOOSE i \in lf : \A j \in lf : i <= j) + 1, Len(s)))
    ELSE s

\* the value of the decimal digits at the front of s, and what follows them
RECURSIVE Decimal(_, _, _)
Decimal(s, value, digits) ==
    IF s # <<>> /\ Head(s) \in 48..57
    THEN Decimal(Tail(s), 10 * value + (Head(s) - 48), digits + 1)
    ELSE [value |-> value, digits |-> digits, rest |-> s]

RECURSIVE SkipWhitespace(_)
SkipWhitespace(s) ==
    IF s # <<>> /\ Head(s) \in {9, 10, 12, 13, 32} THEN SkipWhitespace(Tail(s)) ELSE s

ExpectedPpmHeader(s) ==
    IF Len(s) < 2 \/ s[1] # 80 \/ s[2] # 54 THEN [ok |-> FALSE]
    ELSE
    LET w  == Decimal(SkipWhitespaceAndComments(SubSeq(s, 3, Len(s))), 0, 0)
        h  == Decimal(SkipWhitespace(w.rest), 0, 0)
        mx == Decimal(SkipWhitespace(h.rest), 0, 0)
    IN  IF /\ w.digits > 0 /\ h.digits > 0 /\ mx.digits > 0
           /\ mx.value = 255
           /\ mx.rest # <<>> /\ Head(mx.rest) = 10
        THEN [ok |-> TRUE, width |-> w.value, height |-> h.value,
              body |-> Tail(mx.rest)]
        ELSE [ok |-> FALSE]

\* C25: ppm parse_img skips any mix of whitespace and comment lines in front
\* of the width, reads width, height and maxval as decimal numbers, and
\* accepts the header exactly when maxval is 255 and a line feed follows it.
C25_PpmHeaderRead ==
    pc # "ppm" =>
        LET x == ExpectedPpmHeader(input)
        IN  IF x.ok
            THEN /\ pc \in {"ppm_body", "ppm_done"}
                 /\ hdr.width = x.width
                 /\ hdr.height = x.height
                 /\ pc = "ppm_body" => data = x.body
            ELSE pc = "panic"

(***************************************************************************)
(* Properties of Spec: the Compresser and the Interpreter side by side.    *)
(***************************************************************************)
\* C26: the Interpreter is fed the chunks the Compresser emitted; after its
\* i-th chunk its pixel is the Compresser's last_pix after the i-th chunk
\* (the pixel that chunk encoded), and for an Index{loc} the pixel it read
\* from seen[loc] is the pixel the Compresser encoded.
C26_Lockstep ==
    \A i \in DOMAIN ilog :
        /\ i \in DOMAIN clog
        /\ ilog[i].chunk = clog[i].chunk
        /\ ilog[i].pixel = clog[i].pix
        /\ clog[i].chunk.tag = "Index" => ilog[i].pixel = clog[i].pix

(***************************************************************************)
(* Properties of SpecLive: the pixels the Compresser consumes.             *)
(***************************************************************************)
\* the number of pixels a chunk stands for
Represents(c) == IF c.tag = "Run" THEN c.length ELSE 1

RECURSIVE SumRepresents(_)
SumRepresents(log) ==
    IF log = <<>> THEN 0
    ELSE Represents(log[Len(log)].chunk) + SumRepresents(SubSeq(log, 1, Len(log) - 1))

\* every chunk takes from the stream exactly the pixels it stands for, at
\* least one, starting right after the pixels of the chunks before it; the
\* pixels of a Run all equal the pixel it repeats; and once encode_img has
\* returned, the chunks stand for all n pixels
PixelsConserved ==
    /\ \A i \in DOMAIN clog :
          LET e == clog[i]
          IN  /\ e.taken = Represents(e.chunk)
              /\ e.taken >= 1
              /\ e.at = 1 + SumRepresents(SubSeq(clog, 1, i - 1))
              /\ e.at + e.taken - 1 <= NPixels
              /\ e.pix = PixelAt(e.at)
              /\ \A k \in e.at..(e.at + e.taken - 1) : PixelAt(k) = e.pix
    /\ comp.pix_stream = SumRepresents(clog)
    /\ pc \notin {"encode", "compress"} => SumRepresents(clog) = NPixels

\* C27: on every raster of n four-byte pixels the Compresser comes to its
\* end, having consumed every pixel once and in order, and the pixels its
\* chunks stand for (Run.length for a Run, 1 for any other chunk) sum to n.
C27_PixelConservation ==
    /\ []PixelsConserved
    /\ <>(pc = "encoded" /\ SumRepresents(clog) = NPixels)

\* C27 witness: encode_img has returned for a raster of more than 62 pixels
\* that took a Run of 62 and a chunk of another kind.
C27_Witness ==
    /\ pc = "encoded"
    /\ NPixels > 62
    /\ SumRepresents(clog) = NPixels
    /\ \E i \in DOMAIN clog : clog[i].chunk = Run(62)
    /\ \E i \in DOMAIN clog : clog[i].chunk.tag # "Run"

(***************************************************************************)
(* Properties of SpecEmit.                                                 *)
(***************************************************************************)
\* C28: for every chunk the Compresser emits, the biased fields the
\* Assembler computes are within the bits they are given, without overflow
\* or underflow, and the first byte keeps its tag: Index in 0x00..0x3F, Diff
\* in 0x40..0x7F, Luma in 0x80..0xBF, Run in 0xC0..0xFD.
C28_TagIntegrity ==
    \A i \in DOMAIN clog :
        LET c == clog[i].chunk
            b == AssemblerNext(c)
        IN  /\ c.tag = "Index" => /\ c.loc \in 0..63
                                  /\ b[1] \in 0..63
            /\ c.tag = "Diff" => /\ {c.dr + 2, c.dg + 2, c.db + 2} \subseteq 0..3
                                 /\ b[1] \in 64..127
            /\ c.tag = "Luma" => /\ (c.dg + 32) \in 0..63
                                 /\ {c.dr_dg + 8, c.db_dg + 8} \subseteq 0..15
                                 /\ b[1] \in 128..191
            /\ c.tag = "Run" => /\ BitAnd(c.length, 63) - 1 >= 0
                                /\ c.length <= 63
                                /\ b[1] \in 192..253

\* C28 witness: the Luma chunk with the largest dg was emitted and its first
\* byte is 0xBF.
C28_Witness ==
    \E i \in DOMAIN clog :
        /\ clog[i].chunk = Luma(31, 6, -8)
        /\ AssemblerNext(clog[i].chunk) = <<191, 224>>
        /\ Len(encoded) = 14 + 4 + 2

(***************************************************************************)
(* Properties of SpecDecode: the pixel target.                             *)
(***************************************************************************)
\* C29: for the width W and the height H of the header, parse_img gets past
\* the multiplication and the Interpreter's max_pix is the product W*H as a
\* number, not the product modulo 2^32 (compared digit by digit, base 256).
C29_PixelTargetIsProduct ==
    hdr # HeaderNone =>
        /\ pc # "panic"
        /\ LET t == to_be_bytes(interp.max_pix)
           IN  MulDigits(hdr.width, hdr.height) = <<t[4], t[3], t[2], t[1], 0, 0, 0, 0>>

====
